---- MODULE Spec2Model ----
(***************************************************************************)
(* State-machine model of the MCP protocol client (mcp_client.MCPClient)   *)
(* and its token issuer (auth.JWTAuth).                                    *)
(*                                                                         *)
(* The client runs on a cooperative event loop: the code of request() and  *)
(* stream() between two awaits is one atomic step.  A call is therefore    *)
(* two kinds of step: the synchronous prefix up to the POST (identifier,   *)
(* freshness check, headers, send) and the resumption when the transport   *)
(* answers (status check, decoding, error mapping).                        *)
(***************************************************************************)
EXTENDS Integers, Sequences, FiniteSets, TLC

\* ------------------------------------------------------------- bounds

\* Clock resolution: time.time() is a float; the model counts ticks.
TicksPerSecond == 2
\* Reading of the clock (seconds) when the client is constructed.
StartTime == 1000
\* The protocol scenario: calls made on one client, clock advances, SSE
\* frames delivered in all, and calls awaiting the server at once.
MaxCalls == 2
MaxTicks == 1
MaxFrames == 1
MaxPending == 2
\* The credential scenario: calls made one after the other over a long time.
CredCalls == 3
CredTicks == 2
\* The single-call scenario: one call at a time, every answer in detail.
SoloCalls == 1
SoloFrames == 3
\* The construction scenario: the longest path of a configured address.
MaxUrlLen == 5
\* The command-line scenario: lines entered at the prompt.
MaxInputs == 3

\* ------------------------------------------------- program constants

\* self._token_ttl
token_ttl == 3300
\* generate_token(expires_in=3600)
expires_in == 3600

\* Python's None, where a token is expected.
None == [ none |-> TRUE ]
\* No id: the id argument left out, or an envelope without an "id" key.
NoId == "<no id>"

\* ------------------------------------------------------------ state

VARIABLES
    now,                 \* time.time(), in ticks
    closed,              \* self.client (httpx.AsyncClient) has been closed
    session_id,          \* self.session_id
    current_token,       \* self._current_token
    token_generated_at,  \* self._token_generated_at, in ticks
    drawn,               \* values uuid4() has returned so far
    issued,              \* number of jwt_auth.generate_token() calls
    invoked,             \* number of calls made on the client
    sent_ids,            \* the "id" of every envelope POSTed so far
    pending,             \* the calls awaiting the server, by call number
    done,                \* the call that completed most recently
    budget,              \* what the environment may still do
    config,              \* the constructor's arguments and os.environ
    constructed,         \* how MCPClient.__init__ ended, "no" before it ran
    server_url,          \* self.server_url
    acquired,            \* number of httpx.AsyncClient objects created
    jwt_secret,          \* self.jwt_auth.jwt_secret
    scope,               \* where the caller is relative to `async with`
    suspended,           \* streams left by their consumer at a yield
    leaked,              \* responses held open that no code will close
    cli                  \* the command-line process: cli.py main()

vars == << now, closed, session_id, current_token, token_generated_at,
           drawn, issued, invoked, sent_ids, pending, done, budget,
           config, constructed, server_url, acquired, jwt_secret, scope,
           suspended, leaked, cli >>

\* What the constructors set: the configuration, the address and the
\* issuer's secret.
setup == << config, constructed, server_url, acquired, jwt_secret >>
\* The bookkeeping of scopes and of streams left early.
held == << scope, suspended, leaked >>

cred == << current_token, token_generated_at >>

\* --------------------------------------------------------- uuid4()

\* The values uuid4() can return.  uuid4 is collision resistant: it is
\* modelled as returning a value it has not returned before.  The values
\* are opaque, so one fresh value stands for all of them.
UUIDs == { "uuid-1", "uuid-2", "uuid-3", "uuid-4", "uuid-5", "uuid-6" }

uuid4(used) == CHOOSE u \in UUIDs \ used : TRUE

\* Identifiers a caller may pass as the id argument of request().
CallerIds == { "req-a" }

\* ------------------------------------------------------- JWTAuth

\* A call returns v, or raises e.
Return(v) == [ kind |-> "return", value |-> v ]
Raise(e) == [ kind |-> "raise", exc |-> e ]

\* os.getenv("JWT_SECRET") when the variable is not set, and None where a
\* secret is expected.
NoSecret == "<None>"
\* bool(v) of a secret: None and "" are false.
TruthySecret(v) == v # NoSecret /\ v # ""

\* JWTAuth.__init__ defaults.
issuer == "mapbox-mcp-server"
audience == "mapbox-mcp-server"
subject == "pydantic-ai-client"

\* int(time.time())
IntTime(t) == t \div TicksPerSecond

\* Python's None, where a list of permissions is expected.
NoPermissions == << "<None>" >>

\* Line 59: the permissions of a token when none are asked for.
DefaultPermissions == << "mapbox:*" >>

\* generate_token with the expiry always an hour away, whatever
\* expires_in is.
generate_token_hour(permissions, validity, t) ==
    IF ~TruthySecret(jwt_secret)
    THEN Raise("ValueError: JWT secret is required")
    ELSE Return(
      [ iss |-> issuer,
        sub |-> subject,
        aud |-> audience,
        iat |-> IntTime(t),
        nbf |-> IntTime(t),
        exp |-> IntTime(t) + expires_in,
        permissions |-> IF permissions = NoPermissions
                        THEN DefaultPermissions ELSE permissions,
        key |-> jwt_secret ])

\* generate_token signing with a key of its own, not the issuer's secret.
generate_token_own_key(permissions, validity, t) ==
    IF ~TruthySecret(jwt_secret)
    THEN Raise("ValueError: JWT secret is required")
    ELSE Return(
      [ iss |-> issuer,
        sub |-> subject,
        aud |-> audience,
        iat |-> IntTime(t),
        nbf |-> IntTime(t),
        exp |-> IntTime(t) + validity,
        permissions |-> IF permissions = NoPermissions
                        THEN DefaultPermissions ELSE permissions,
        key |-> "other" ])

\* generate_token without lines 75-76: it signs with whatever the secret
\* is.
generate_token_unchecked(permissions, validity, t) ==
    Return(
      [ iss |-> issuer,
        sub |-> subject,
        aud |-> audience,
        iat |-> IntTime(t),
        nbf |-> IntTime(t),
        exp |-> IntTime(t) + validity,
        permissions |-> IF permissions = NoPermissions
                        THEN DefaultPermissions ELSE permissions,
        key |-> jwt_secret ])

\* JWTAuth.generate_token: the error of lines 75-76 when the issuer has no
\* secret, else the token: its claims, and the key the HS256 signature
\* is computed with.  jwt.encode is a function of exactly these.
generate_token(permissions, validity, t) ==
    IF ~TruthySecret(jwt_secret)
    THEN Raise("ValueError: JWT secret is required")
    ELSE Return(
      [ iss |-> issuer,
        sub |-> subject,
        aud |-> audience,
        iat |-> IntTime(t),
        nbf |-> IntTime(t),
        exp |-> IntTime(t) + validity,
        permissions |-> IF permissions = NoPermissions
                        THEN DefaultPermissions ELSE permissions,
        key |-> jwt_secret ])

\* get_auth_header with the token alone as the header's value.
get_auth_header_bare(permissions, validity, t) ==
    LET token == generate_token(permissions, validity, t)
    IN  IF token.kind = "raise" THEN token
        ELSE Return([ Authorization |-> [ scheme |-> "",
                                          token |-> token.value ] ])

\* JWTAuth.get_auth_header, lines 100-101: the header holding
\* "Bearer " + token, or the exception of generate_token.
get_auth_header(permissions, validity, t) ==
    LET token == generate_token(permissions, validity, t)
    IN  IF token.kind = "raise" THEN token
        ELSE Return([ Authorization |-> [ scheme |-> "Bearer",
                                          token |-> token.value ] ])

\* The claims of a token: what jwt.decode returns of it.
Claims(token) == [ f \in DOMAIN token \ { "key" } |-> token[f] ]

\* jwt.decode(token, key, algorithms=["HS256"], audience=aud, issuer=iss)
\* at time t: the signature is checked with key, then iat, nbf, exp,
\* iss and aud.
jwt_decode(token, key, aud, iss, t) ==
    IF token.key # key THEN Raise("InvalidSignatureError")
    ELSE IF token.iat > IntTime(t) THEN Raise("ImmatureSignatureError")
    ELSE IF token.nbf > IntTime(t) THEN Raise("ImmatureSignatureError")
    ELSE IF token.exp <= IntTime(t) THEN Raise("ExpiredSignatureError")
    ELSE IF token.iss # iss THEN Raise("InvalidIssuerError")
    ELSE IF token.aud # aud THEN Raise("InvalidAudienceError")
    ELSE Return(Claims(token))

\* ------------------------------------------------- MCPClient.__init__

\* An address is the sequence of its characters.  "h" stands for the
\* scheme and host ("http://host"); the other characters are those of the
\* path suffix.
PathChars == { "/", "m", "c", "p" }

RECURSIVE Paths(_)
Paths(n) ==
    IF n = 0 THEN { << >> }
    ELSE LET shorter == Paths(n - 1)
         IN  shorter \cup { Append(q, ch) : q \in shorter, ch \in PathChars }

\* Python's None, where an address is expected.
NoUrl == << "<None>" >>
\* The addresses a caller or the environment may configure: none, the
\* empty string, and a host followed by any path.
Urls == { NoUrl, << >> } \cup { << "h" >> \o q : q \in Paths(MaxUrlLen) }

\* bool(v) of an address: None and "" are false.
Truthy(v) == v # NoUrl /\ v # << >>

\* The literal "/mcp" of lines 45-46.
mcp == << "/", "m", "c", "p" >>

\* str.endswith
endswith(str, suffix) ==
    /\ Len(str) >= Len(suffix)
    /\ SubSeq(str, Len(str) - Len(suffix) + 1, Len(str)) = suffix

\* str.rstrip(ch): every trailing ch is removed.
RECURSIVE rstrip(_, _)
rstrip(str, ch) ==
    IF Len(str) > 0 /\ str[Len(str)] = ch
    THEN rstrip(SubSeq(str, 1, Len(str) - 1), ch)
    ELSE str

\* Lines 45-46 with one trailing "/" removed at most.
normalize_strip_one(url) ==
    IF ~endswith(url, mcp)
    THEN (IF Len(url) > 0 /\ url[Len(url)] = "/"
          THEN SubSeq(url, 1, Len(url) - 1) ELSE url) \o mcp
    ELSE url

\* Lines 45-46: "Ensure URL ends with /mcp".
normalize(url) ==
    IF ~endswith(url, mcp) THEN rstrip(url, "/") \o mcp ELSE url

\* JWTAuth.__init__, lines 32-38, called without a secret argument: the
\* exception it raises, "none" when it returns.
JWTAuth_init(env_secret) ==
    IF ~TruthySecret(env_secret)
    THEN "ValueError: JWT_SECRET environment variable is required"
    ELSE "none"

\* __init__ with the httpx.AsyncClient of line 58 created first, before
\* the address is validated.
MCPClient_init_acquire_first(cfg) ==
    LET url == IF Truthy(cfg.server_url) THEN cfg.server_url
                                         ELSE cfg.MCP_SERVER_URL
    IN  IF ~Truthy(url)
        THEN [ ended |-> "ValueError: MCP_SERVER_URL environment variable is required",
               server_url |-> url, acquired |-> 1 ]
        ELSE IF JWTAuth_init(cfg.JWT_SECRET) # "none"
        THEN [ ended |-> JWTAuth_init(cfg.JWT_SECRET),
               server_url |-> normalize(url), acquired |-> 1 ]
        ELSE [ ended |-> "returned",
               server_url |-> normalize(url), acquired |-> 1 ]

\* MCPClient.__init__, lines 40-65, called with cfg.server_url in an
\* environment with cfg.MCP_SERVER_URL and cfg.JWT_SECRET: how it ends,
\* self.server_url, and the number of httpx.AsyncClient objects it creates.
MCPClient_init(cfg) ==
    LET url == IF Truthy(cfg.server_url) THEN cfg.server_url
                                         ELSE cfg.MCP_SERVER_URL
    IN  IF ~Truthy(url)
        THEN [ ended |-> "ValueError: MCP_SERVER_URL environment variable is required",
               server_url |-> url, acquired |-> 0 ]
        ELSE IF JWTAuth_init(cfg.JWT_SECRET) # "none"
        THEN [ ended |-> JWTAuth_init(cfg.JWT_SECRET),
               server_url |-> normalize(url), acquired |-> 0 ]
        ELSE [ ended |-> "returned",
               server_url |-> normalize(url), acquired |-> 1 ]

\* The configuration of the clients the other scenarios run on: the
\* address given as in the tests, the secret in the environment.
DefaultConfig ==
    [ server_url |-> << "h" >>, MCP_SERVER_URL |-> NoUrl,
      JWT_SECRET |-> "secret" ]

\* --------------------------------------------- MCPClient._get_fresh_token

\* Line 91 with >= for >: a credential is replaced already when its age
\* equals the threshold.
NeedsRefreshAtThreshold(tok, gen, t) ==
    tok = None \/ (t - gen) >= token_ttl * TicksPerSecond

\* Line 91 without the age test: a cached credential is kept for ever.
NeedsRefreshNever(tok, gen, t) == tok = None

\* The condition of the if at line 91.
NeedsRefresh(tok, gen, t) ==
    tok = None \/ (t - gen) > token_ttl * TicksPerSecond

\* _get_fresh_token without line 96: the new token is cached and the
\* issuance timestamp is left as it was.
get_fresh_token_keeps_timestamp(tok, gen, t) ==
    LET new == generate_token(NoPermissions, expires_in, t) IN
    IF ~NeedsRefresh(tok, gen, t)
    THEN [ token |-> tok, generated_at |-> gen, minted |-> 0,
           raised |-> "none" ]
    ELSE IF new.kind = "raise"
    THEN [ token |-> tok, generated_at |-> gen, minted |-> 0,
           raised |-> new.exc ]
    ELSE [ token |-> new.value, generated_at |-> gen, minted |-> 1,
           raised |-> "none" ]

\* _get_fresh_token with line 96 outside the if: the issuance timestamp
\* is written by every call that returns.
get_fresh_token_stamps_always(tok, gen, t) ==
    LET new == generate_token(NoPermissions, expires_in, t) IN
    IF ~NeedsRefresh(tok, gen, t)
    THEN [ token |-> tok, generated_at |-> t, minted |-> 0,
           raised |-> "none" ]
    ELSE IF new.kind = "raise"
    THEN [ token |-> tok, generated_at |-> gen, minted |-> 0,
           raised |-> new.exc ]
    ELSE [ token |-> new.value, generated_at |-> t, minted |-> 1,
           raised |-> "none" ]

\* _get_fresh_token with lines 95 and 96 exchanged: the issuance
\* timestamp is written before generate_token is called.
get_fresh_token_stamps_first(tok, gen, t) ==
    LET new == generate_token(NoPermissions, expires_in, t) IN
    IF ~NeedsRefresh(tok, gen, t)
    THEN [ token |-> tok, generated_at |-> gen, minted |-> 0,
           raised |-> "none" ]
    ELSE IF new.kind = "raise"
    THEN [ token |-> tok, generated_at |-> t, minted |-> 0,
           raised |-> new.exc ]
    ELSE [ token |-> new.value, generated_at |-> t, minted |-> 1,
           raised |-> "none" ]

\* _get_fresh_token: the token returned and the state it leaves
\* (self._current_token, self._token_generated_at), the number of tokens
\* minted, and the exception of generate_token it lets through at line
\* 95, before either attribute is assigned.
get_fresh_token(tok, gen, t) ==
    LET new == generate_token(NoPermissions, expires_in, t) IN
    IF ~NeedsRefresh(tok, gen, t)
    THEN [ token |-> tok, generated_at |-> gen, minted |-> 0,
           raised |-> "none" ]
    ELSE IF new.kind = "raise"
    THEN [ token |-> tok, generated_at |-> gen, minted |-> 0,
           raised |-> new.exc ]
    ELSE [ token |-> new.value, generated_at |-> t, minted |-> 1,
           raised |-> "none" ]

\* ------------------------------------------------ the transport's answers

\* HTTP status codes the server answers with.
Statuses == { 200, 201, 301, 401, 500 }

\* Response bodies (response.text).
Bodies ==
    { "<html>",
      "{}",
      "{\"result\":{\"features\":[]}}",
      "{\"result\":{\"tools\":[\"geocode\"]}}",
      "{\"error\":{\"code\":-32601,\"message\":\"Method not found\"}}",
      "{\"error\":{\"code\":-32000,\"message\":\"Tool failed\",\"data\":\"detail\"}}",
      "{\"error\":null,\"result\":{\"features\":[]}}",
      "{\"error\":{\"code\":-32601,\"message\":\"Method not found\"},\"result\":{}}",
      "{\"result\":{\"result\":{\"features\":[]}}}",
      "{\"result\":null}" }

\* JSON null.
JNull == [ json_null |-> TRUE ]
\* A decoded value that is a JSON object (a dict): it has .get and `in`.
IsDict(v) == "json_null" \notin DOMAIN v

EmptyDict == [ k \in {} |-> JNull ]

\* json.loads / response.json(): the decoded value, or a decoding error.
json_loads(text) ==
    CASE text = "{}" ->
           [ ok |-> TRUE, value |-> EmptyDict ]
      [] text = "{\"result\":{\"features\":[]}}" ->
           [ ok |-> TRUE, value |-> [ result |-> [ features |-> << >> ] ] ]
      [] text = "{\"result\":{\"tools\":[\"geocode\"]}}" ->
           [ ok |-> TRUE, value |-> [ result |-> [ tools |-> << "geocode" >> ] ] ]
      [] text = "{\"error\":{\"code\":-32601,\"message\":\"Method not found\"}}" ->
           [ ok |-> TRUE,
             value |-> [ error |-> [ code |-> -32601,
                                     message |-> "Method not found" ] ] ]
      [] text = "{\"error\":{\"code\":-32000,\"message\":\"Tool failed\",\"data\":\"detail\"}}" ->
           [ ok |-> TRUE,
             value |-> [ error |-> [ code |-> -32000,
                                     message |-> "Tool failed",
                                     data |-> "detail" ] ] ]
      [] text = "{\"error\":null,\"result\":{\"features\":[]}}" ->
           [ ok |-> TRUE,
             value |-> [ error |-> JNull, result |-> [ features |-> << >> ] ] ]
      [] text = "{\"error\":{\"code\":-32601,\"message\":\"Method not found\"},\"result\":{}}" ->
           [ ok |-> TRUE,
             value |-> [ error |-> [ code |-> -32601,
                                     message |-> "Method not found" ],
                         result |-> EmptyDict ] ]
      [] text = "{\"result\":{\"result\":{\"features\":[]}}}" ->
           [ ok |-> TRUE,
             value |-> [ result |-> [ result |-> [ features |-> << >> ] ] ] ]
      [] text = "{\"result\":null}" ->
           [ ok |-> TRUE, value |-> [ result |-> JNull ] ]
      [] text = "{\"seq\":1}" -> [ ok |-> TRUE, value |-> [ seq |-> 1 ] ]
      [] text = "{\"seq\":2}" -> [ ok |-> TRUE, value |-> [ seq |-> 2 ] ]
      [] OTHER -> [ ok |-> FALSE ]

\* What the transport can answer to a POST.
Responses ==
    { [ type |-> "timeout" ], [ type |-> "connect_error" ] }
    \cup [ type : { "http" }, status : Statuses, text : Bodies ]

\* raise_for_status letting client errors through: only 5xx raises.
is_success_below_500(status) == status < 500

\* Response.is_success, which raise_for_status tests.
is_success(status) == 200 <= status /\ status <= 299


\* ------------------------------------------------- MCPClient.request

\* Line 121 with a fixed value where uuid4() is called.
RequestIdFixed(given, fresh) == IF given = NoId THEN "uuid-6" ELSE given

\* Line 120: the identifier of the envelope.
RequestId(given, fresh) == IF given = NoId THEN fresh ELSE given

\* The params argument left out.
NoParams == [ no_params |-> TRUE ]

\* Lines 123-130: request_data.
request_envelope(method, id, params) ==
    IF params = NoParams
    THEN [ jsonrpc |-> "2.0", method |-> method, id |-> id ]
    ELSE [ jsonrpc |-> "2.0", method |-> method, id |-> id, params |-> params ]

\* Line 135 with a session identifier made per call.
request_headers_per_call(token, sid) ==
    [ Authorization |-> [ scheme |-> "Bearer", token |-> token ],
      mcp_session_id |-> "uuid-6" ]

\* Lines 134-135: the headers of a unary call.
request_headers(token, sid) ==
    [ Authorization |-> [ scheme |-> "Bearer", token |-> token ],
      mcp_session_id |-> sid ]

\* A client that sends whether or not it has been closed.
client_post_always(is_closed) == "sent"

\* self.client.post / aconnect_sse on self.client: httpx sends nothing
\* through a client that has been closed and raises RuntimeError.
client_post(is_closed) == IF is_closed THEN "RuntimeError" ELSE "sent"

\* Lines 150-173 without the check for "error" at line 155.
request_outcome_unchecked(resp) ==
    CASE resp.type = "timeout" -> Raise("TimeoutException")
      [] resp.type = "connect_error" -> Raise("ConnectError")
      [] OTHER ->
           IF ~is_success(resp.status)
           THEN [ kind |-> "raise", exc |-> "HTTPStatusError",
                  status |-> resp.status ]
           ELSE LET decoded == json_loads(resp.text) IN
                IF ~decoded.ok
                THEN Raise("JSONDecodeError")
                ELSE Return(decoded.value)

\* Lines 150-173: what request() does with the transport's answer.
request_outcome(resp) ==
    CASE resp.type = "timeout" -> Raise("TimeoutException")
      [] resp.type = "connect_error" -> Raise("ConnectError")
      [] OTHER ->
           IF ~is_success(resp.status)
           THEN [ kind |-> "raise", exc |-> "HTTPStatusError",
                  status |-> resp.status ]
           ELSE LET decoded == json_loads(resp.text) IN
                IF ~decoded.ok
                THEN Raise("JSONDecodeError")
                ELSE LET result == decoded.value IN
                     IF "error" \in DOMAIN result
                     THEN IF IsDict(result.error)
                          THEN [ kind |-> "raise", exc |-> "ValueError",
                                 error |-> result.error ]
                          ELSE Raise("AttributeError")
                     ELSE Return(result)

\* A request() that closes the client when the call failed.
closed_after_failure(is_closed, o) == is_closed \/ o.kind = "raise"

\* Lines 150-173 do not touch self.client: whether the client is closed
\* once request() has handled the transport's answer with outcome o.
closed_after_response(is_closed, o) == is_closed

\* A request() that POSTs once more when the first attempt failed.
posts_after_retry(posts, o) == IF o.kind = "raise" THEN posts + 1 ELSE posts

\* Lines 150-173 send nothing: the number of POSTs a call has caused once
\* request() has handled the transport's answer with outcome o.
posts_after_response(posts, o) == posts

\* Lines 263-266 unwrapping for as long as there is a result key: two
\* levels of the bodies modelled here.
call_tool_outcome_deep(o) ==
    IF o.kind # "return" THEN o
    ELSE IF "result" \notin DOMAIN o.value THEN o
    ELSE IF IsDict(o.value.result) /\ "result" \in DOMAIN o.value.result
         THEN Return(o.value.result.result)
         ELSE Return(o.value.result)

\* Lines 263-266: call_tool unwraps the result key.
call_tool_outcome(o) ==
    IF o.kind # "return" THEN o
    ELSE IF "result" \in DOMAIN o.value THEN Return(o.value.result) ELSE o

\* Line 275 with subscripts, result["result"]["tools"]: a missing key
\* raises KeyError.
list_tools_outcome_strict(o) ==
    IF o.kind # "return" THEN o
    ELSE IF "result" \notin DOMAIN o.value THEN Raise("KeyError")
    ELSE IF ~IsDict(o.value.result) THEN Raise("TypeError")
    ELSE IF "tools" \in DOMAIN o.value.result
         THEN Return(o.value.result.tools)
         ELSE Raise("KeyError")

\* Line 275: result.get("result", {}).get("tools", []).
list_tools_outcome(o) ==
    IF o.kind # "return" THEN o
    ELSE IF "result" \notin DOMAIN o.value THEN Return(<< >>)
    ELSE IF ~IsDict(o.value.result) THEN Raise("AttributeError")
    ELSE IF "tools" \in DOMAIN o.value.result
         THEN Return(o.value.result.tools)
         ELSE Return(<< >>)

\* The outcome the caller of op sees.
outcome_of(op, resp) ==
    CASE op = "call_tool" -> call_tool_outcome(request_outcome(resp))
      [] op = "list_tools" -> list_tools_outcome(request_outcome(resp))
      [] OTHER -> request_outcome(resp)

\* The JSON-RPC method and params each operation sends: call_tool lines
\* 255-261, list_tools line 274; a plain request is given both.
method_of(op) ==
    CASE op = "call_tool" -> "tools/call"
      [] op = "list_tools" -> "tools/list"
      [] OTHER -> "resources/list"

params_of(op) ==
    CASE op = "call_tool" ->
           [ name |-> "forward_geocode_tool", arguments |-> [ q |-> "Paris" ] ]
      [] op = "list_tools" -> NoParams
      [] OTHER -> [ cursor |-> "0" ]

\* --------------------------------------------------- MCPClient.stream

\* Lines 190-194: request_data of a stream; `params or {}`, and no id.
stream_envelope(method, params) ==
    [ jsonrpc |-> "2.0", method |-> method,
      params |-> IF params = NoParams THEN EmptyDict ELSE params ]

\* Lines 198-200: the headers of a streaming call.
stream_headers(token, sid) ==
    [ Authorization |-> [ scheme |-> "Bearer", token |-> token ],
      mcp_session_id |-> sid,
      Accept |-> "text/event-stream" ]

\* The data field of the SSE frames the server sends.
FrameData == { "", "{bad", "{\"seq\":1}", "{\"seq\":2}" }

\* Lines 217-232 without the except clause: malformed data ends the loop.
on_sse_uncaught(yielded, data) ==
    IF data # ""
    THEN LET decoded == json_loads(data) IN
         IF decoded.ok
         THEN [ yielded |-> Append(yielded, decoded.value), raised |-> "none" ]
         ELSE [ yielded |-> yielded, raised |-> "JSONDecodeError" ]
    ELSE [ yielded |-> yielded, raised |-> "none" ]

\* Lines 217-232, one pass of the loop body: the events yielded so far
\* after one more frame, and the exception that leaves the loop, if any.
on_sse(yielded, data) ==
    IF data # ""
    THEN LET decoded == json_loads(data) IN
         IF decoded.ok
         THEN [ yielded |-> Append(yielded, decoded.value), raised |-> "none" ]
         ELSE [ yielded |-> yielded, raised |-> "none" ]
    ELSE [ yielded |-> yielded, raised |-> "none" ]

\* The stream with the response closed only after the loop (no context
\* manager): an exception that leaves the generator leaves it open.
aconnect_sse_exit_unscoped(cause) ==
    IF cause = "exhausted" THEN "released" ELSE "held"

\* Lines 209-215, `async with aconnect_sse(...)`: the response is closed
\* when control leaves the block, whatever the cause (the loop is
\* exhausted, or an exception passes through).
aconnect_sse_exit(cause) == "released"

\* Failures of the transport while a stream is open.
StreamFailures == { "ReadTimeout", "RemoteProtocolError", "SSEError" }

\* ------------------------------------------------------------ cli.py

\* Python's None where a query or a result is expected.
NoQuery == "<None>"
NoResult == "<None>"
\* Prompt.ask meets the end of its input: EOFError.
Eof == "<EOF>"

\* What the user types at the prompt.
Inputs ==
    { "/quit", "/QUIT", "/Exit", "/help", "/HELP", "/clear", "/unknown",
      "", "   ", " /quit", "coffee near me" }

\* str.lower and str.strip, on the strings above.
lower(str) ==
    CASE str = "/QUIT" -> "/quit"
      [] str = "/Exit" -> "/exit"
      [] str = "/HELP" -> "/help"
      [] OTHER -> str

strip(str) ==
    CASE str = "   " -> ""
      [] str = " /quit" -> "/quit"
      [] OTHER -> str

\* The loop with the commands compared as typed, without lower().
loop_command_exact(query) ==
    IF query \in { "/quit", "/exit" } THEN "break"
    ELSE IF query = "/help" THEN "help"
    ELSE IF query = "/clear" THEN "clear"
    ELSE IF strip(query) = "" THEN "blank"
    ELSE "query"

\* interactive_loop, lines 201-212: what the loop does with a line.
loop_command(query) ==
    IF lower(query) \in { "/quit", "/exit" } THEN "break"
    ELSE IF lower(query) = "/help" THEN "help"
    ELSE IF lower(query) = "/clear" THEN "clear"
    ELSE IF strip(query) = "" THEN "blank"
    ELSE "query"

\* How the processing of a query can go: create_agent_with_deps raises
\* ValueError, agent.run returns a result or raises an error, and Ctrl+C
\* arrives while agent.run is awaited.  Ctrl+C reaches the coroutine as
\* KeyboardInterrupt when the signal is handled while its code runs on an
\* event loop without a SIGINT handler, and as the cancellation of the
\* main task (CancelledError) from asyncio.run's SIGINT handler.
Outcomes ==
    { "ValueError", "result", "Exception", "KeyboardInterrupt",
      "CancelledError" }

\* The exceptions `except Exception` catches: KeyboardInterrupt and
\* CancelledError derive from BaseException only.
IsException(exc) == exc \in { "ValueError", "Exception", "EOFError" }

\* process_query with the except clause re-raising.
process_query_reraises(outcome) ==
    [ returned |-> IF outcome = "result" THEN "LocationResult" ELSE NoResult,
      printed |-> "none",
      raised |-> IF outcome = "result" THEN "none" ELSE outcome,
      agent_runs |-> IF outcome = "ValueError" THEN 0 ELSE 1 ]

\* process_query, lines 107-134: what it returns, prints and lets
\* through, and the number of times it runs the agent.
process_query(outcome) ==
    [ returned |-> IF outcome = "result" THEN "LocationResult" ELSE NoResult,
      printed |-> IF IsException(outcome) THEN "Error" ELSE "none",
      raised |-> IF outcome = "result" \/ IsException(outcome)
                 THEN "none" ELSE outcome,
      agent_runs |-> IF outcome = "ValueError" THEN 0 ELSE 1 ]

\* The except clauses of the loop, lines 220-224: what is printed, and
\* the exception that leaves the loop.
loop_except(exc) ==
    IF exc = "KeyboardInterrupt"
    THEN [ printed |-> "Interrupted", raised |-> "none" ]
    ELSE IF IsException(exc)
    THEN [ printed |-> "Unexpected error", raised |-> "none" ]
    ELSE [ printed |-> "none", raised |-> exc ]

\* main without its finally clause: the interpreter's exit status, 0
\* after a normal return, 130 after KeyboardInterrupt, 1 after any other
\* exception.
main_exit_no_finally(exc) ==
    IF exc = "none" THEN 0
    ELSE IF exc = "KeyboardInterrupt" THEN 130 ELSE 1

\* main, lines 251-254: `finally: ... sys.exit(0)` replaces whatever
\* exception is on its way out.
main_exit(exc) == 0

\* The process before main() runs.
NotStarted ==
    [ pc |-> "start", mode |-> "none", left |-> 0, line |-> NoQuery,
      query |-> NoQuery, agent_runs |-> 0, printed |-> "none",
      result |-> NoResult, raised |-> "none", status |-> -1 ]

\* The process once main() has exited with exception exc on its way out.
Exited(c, exc) == [ c EXCEPT !.pc = "exited", !.status = main_exit(exc) ]

\* ------------------------------------------------------------ actions

NoAnswer == [ type |-> "none" ]

NoCall ==
    [ op |-> "none", posts |-> 0, answer |-> NoAnswer,
      outcome |-> [ kind |-> "none" ],
      frames |-> << >>, yielded |-> << >> ]

Ops == { "request", "call_tool", "list_tools" }

\* MCPClient.__init__, lines 50-55, with the clock at StartTime, in an
\* environment that will do what b allows.
Construct(b) ==
    /\ now = StartTime * TicksPerSecond
    /\ closed = FALSE
    /\ session_id = uuid4({})
    /\ drawn = { session_id }
    /\ current_token = None
    /\ token_generated_at = 0
    /\ issued = 0
    /\ invoked = 0
    /\ sent_ids = {}
    /\ pending = << >>
    /\ done = NoCall
    /\ budget = b
    /\ config = DefaultConfig
    /\ constructed = MCPClient_init(DefaultConfig).ended
    /\ server_url = MCPClient_init(DefaultConfig).server_url
    /\ acquired = MCPClient_init(DefaultConfig).acquired
    /\ jwt_secret = DefaultConfig.JWT_SECRET
    /\ cli = NotStarted
    /\ scope = "outside"
    /\ suspended = << >>
    /\ leaked = {}

\* The state before MCPClient(...) is called with configuration cfg.
Unconstructed(b, cfg) ==
    /\ now = StartTime * TicksPerSecond
    /\ closed = FALSE
    /\ session_id = NoId
    /\ drawn = {}
    /\ current_token = None
    /\ token_generated_at = 0
    /\ issued = 0
    /\ invoked = 0
    /\ sent_ids = {}
    /\ pending = << >>
    /\ done = NoCall
    /\ budget = b
    /\ config = cfg
    /\ constructed = "no"
    /\ server_url = NoUrl
    /\ acquired = 0
    /\ jwt_secret = NoSecret
    /\ cli = NotStarted
    /\ scope = "outside"
    /\ suspended = << >>
    /\ leaked = {}

\* MCPClient(server_url=config.server_url), lines 40-65.
New ==
    /\ constructed = "no"
    /\ LET r == MCPClient_init(config) IN
        /\ constructed' = r.ended
        /\ server_url' = r.server_url
        /\ acquired' = acquired + r.acquired
        /\ jwt_secret' = IF r.ended = "returned" THEN config.JWT_SECRET
                                                 ELSE jwt_secret
        /\ IF r.ended = "returned"
           THEN /\ session_id' = uuid4(drawn)
                /\ drawn' = drawn \cup { uuid4(drawn) }
           ELSE UNCHANGED << session_id, drawn >>
    /\ UNCHANGED << cli, now, closed, current_token, token_generated_at, issued,
                    invoked, sent_ids, pending, done, budget, config, held >>

\* How far the clock moves between two steps of the client.
Deltas == { 1, token_ttl * TicksPerSecond, token_ttl * TicksPerSecond + 1 }

Tick(d) ==
    /\ budget.ticks > 0
    /\ now' = now + d
    /\ budget' = [ budget EXCEPT !.ticks = @ - 1 ]
    /\ UNCHANGED << cli, closed, session_id, current_token, token_generated_at,
                    drawn, issued, invoked, sent_ids, pending, done, setup,
                    held >>

\* Lines 133 and 197: token = self._get_fresh_token(), at the present time.
Fresh == get_fresh_token(current_token, token_generated_at, now)

\* The calls awaiting the server, with call c added or removed.
WithCall(c, rec) ==
    [ j \in DOMAIN pending \cup { c } |-> IF j = c THEN rec ELSE pending[j] ]
WithoutCall(c) == [ j \in DOMAIN pending \ { c } |-> pending[j] ]

\* The synchronous prefix of request() and stream(), lines 119-149 and
\* 189-215: the freshness check, whose exception ends the call, then the
\* POST of the envelope to self.server_url, which the transport refuses
\* when the client has been closed.
Send(op, id, envelope, headers) ==
    LET fresh == Fresh
        call == [ op |-> op, url |-> server_url, envelope |-> envelope,
                  headers |-> headers, posts |-> 1,
                  frames |-> << >>, yielded |-> << >> ]
    IN  /\ constructed = "returned"
        /\ budget.calls > 0
        /\ Cardinality(DOMAIN pending) < budget.pending
        /\ budget' = [ budget EXCEPT !.calls = @ - 1 ]
        /\ invoked' = invoked + 1
        /\ current_token' = fresh.token
        /\ token_generated_at' = fresh.generated_at
        /\ issued' = issued + fresh.minted
        /\ IF fresh.raised # "none"
           THEN /\ done' = [ NoCall EXCEPT
                               !.op = op,
                               !.outcome = Raise(fresh.raised) ]
                /\ UNCHANGED << sent_ids, pending >>
           ELSE IF client_post(closed) = "sent"
           THEN /\ sent_ids' = IF id = NoId THEN sent_ids
                                            ELSE sent_ids \cup { id }
                /\ pending' = WithCall(invoked + 1, call)
                /\ UNCHANGED done
           ELSE /\ done' = [ NoCall EXCEPT
                               !.op = op,
                               !.outcome = Raise(client_post(closed)) ]
                /\ UNCHANGED << sent_ids, pending >>
        /\ UNCHANGED << cli, now, closed, session_id, setup, held >>

\* request(method, params, id), call_tool(name, arguments), list_tools().
Request(op, given) ==
    LET id == RequestId(given, uuid4(drawn))
    IN  /\ Send(op, id, request_envelope(method_of(op), id, params_of(op)),
                request_headers(Fresh.token, session_id))
        /\ drawn' = IF given = NoId THEN drawn \cup { uuid4(drawn) } ELSE drawn

\* The call's record once it has completed with outcome o.
Completed(c, resp, o) ==
    [ op |-> pending[c].op, posts |-> pending[c].posts, answer |-> resp,
      outcome |-> o,
      frames |-> pending[c].frames, yielded |-> pending[c].yielded ]

\* The transport answers the POST of unary call c: lines 150-173.
Respond(c, resp) ==
    /\ c \in DOMAIN pending
    /\ pending[c].op # "stream"
    /\ LET o == outcome_of(pending[c].op, resp) IN
        /\ done' = [ Completed(c, resp, o) EXCEPT
                       !.posts = posts_after_response(@, o) ]
        /\ closed' = closed_after_response(closed, o)
    /\ pending' = WithoutCall(c)
    /\ UNCHANGED << cli, now, session_id, current_token,
                    token_generated_at, drawn, issued, invoked, sent_ids,
                    budget, setup, held >>

\* stream(method, params), first iteration: lines 189-215.
StreamOpen ==
    /\ Send("stream", NoId, stream_envelope(method_of("stream"), NoParams),
            stream_headers(Fresh.token, session_id))
    /\ UNCHANGED drawn

\* One SSE frame arrives on open stream c: lines 216-232.
StreamEvent(c, data) ==
    /\ c \in DOMAIN pending
    /\ pending[c].op = "stream"
    /\ budget.frames > 0
    /\ budget' = [ budget EXCEPT !.frames = @ - 1 ]
    /\ LET r == on_sse(pending[c].yielded, data)
           after == [ pending[c] EXCEPT !.frames = Append(@, data),
                                        !.yielded = r.yielded ]
       IN  IF r.raised = "none"
           THEN /\ pending' = [ pending EXCEPT ![c] = after ]
                /\ UNCHANGED done
           ELSE /\ done' = [ op |-> "stream", posts |-> after.posts,
                             answer |-> NoAnswer, outcome |-> Raise(r.raised),
                             frames |-> after.frames,
                             yielded |-> after.yielded ]
                /\ pending' = WithoutCall(c)
    /\ UNCHANGED << cli, now, closed, session_id, current_token,
                    token_generated_at, drawn, issued, invoked, sent_ids,
                    setup, held >>

\* The server closes the connection of stream c: aiter_sse() is exhausted
\* and the generator returns.
StreamClose(c) ==
    /\ c \in DOMAIN pending
    /\ pending[c].op = "stream"
    /\ done' = Completed(c, NoAnswer, [ kind |-> "return" ])
    /\ pending' = WithoutCall(c)
    /\ UNCHANGED << cli, now, closed, session_id, current_token,
                    token_generated_at, drawn, issued, invoked, sent_ids,
                    budget, setup, held >>

\* The transport fails while stream c is open: the exception leaves the
\* generator.
StreamFail(c, exc) ==
    /\ c \in DOMAIN pending
    /\ pending[c].op = "stream"
    /\ done' = Completed(c, NoAnswer, Raise(exc))
    /\ pending' = WithoutCall(c)
    /\ leaked' = IF aconnect_sse_exit(exc) = "released" THEN leaked
                                                       ELSE leaked \cup { c }
    /\ UNCHANGED << cli, now, closed, session_id, current_token,
                    token_generated_at, drawn, issued, invoked, sent_ids,
                    budget, setup, scope, suspended >>

\* The task awaiting call c is cancelled: CancelledError is raised at the
\* await of line 145 (the POST) or of line 216 (the next frame) and leaves
\* the call; request() holds nothing of its own, and the stream's response
\* is closed by the block of lines 209-215.
Cancel(c) ==
    /\ c \in DOMAIN pending
    /\ done' = Completed(c, NoAnswer, Raise("CancelledError"))
    /\ pending' = WithoutCall(c)
    /\ leaked' = IF \/ pending[c].op # "stream"
                    \/ aconnect_sse_exit("CancelledError") = "released"
                 THEN leaked
                 ELSE leaked \cup { c }
    /\ UNCHANGED << cli, now, closed, session_id, current_token,
                    token_generated_at, drawn, issued, invoked, sent_ids,
                    budget, setup, scope, suspended >>

\* One SSE frame arrives on open stream c, its event is yielded (line 226)
\* and the consumer stops consuming there (break, an exception or a
\* cancellation in the consumer's own code): the generator stays suspended
\* at the yield, inside the block of lines 209-215.
StreamLeave(c, data) ==
    /\ c \in DOMAIN pending
    /\ pending[c].op = "stream"
    /\ budget.frames > 0
    /\ LET r == on_sse(pending[c].yielded, data) IN
        /\ r.raised = "none"
        /\ r.yielded # pending[c].yielded
        /\ suspended' =
              [ j \in DOMAIN suspended \cup { c } |->
                  IF j = c
                  THEN [ pending[c] EXCEPT !.frames = Append(@, data),
                                           !.yielded = r.yielded ]
                  ELSE suspended[j] ]
        /\ done' = [ op |-> "stream", posts |-> pending[c].posts,
                     answer |-> NoAnswer, outcome |-> [ kind |-> "left" ],
                     frames |-> Append(pending[c].frames, data),
                     yielded |-> r.yielded ]
    /\ budget' = [ budget EXCEPT !.frames = @ - 1 ]
    /\ pending' = WithoutCall(c)
    /\ UNCHANGED << cli, now, closed, session_id, current_token,
                    token_generated_at, drawn, issued, invoked, sent_ids,
                    setup, scope, leaked >>

\* The suspended generator of stream c is closed (aclose(), by the consumer
\* or by the event loop when the generator is collected): GeneratorExit is
\* raised at the yield of line 226, is not caught at line 227 and leaves
\* through the block of lines 209-215.
StreamFinalize(c) ==
    /\ c \in DOMAIN suspended
    /\ suspended' = [ j \in DOMAIN suspended \ { c } |-> suspended[j] ]
    /\ leaked' = IF aconnect_sse_exit("GeneratorExit") = "released"
                 THEN leaked
                 ELSE leaked \cup { c }
    /\ UNCHANGED << cli, now, closed, session_id, current_token,
                    token_generated_at, drawn, issued, invoked, sent_ids,
                    pending, done, budget, setup, scope >>

\* __aexit__ closing the client only when the block ended normally.
aexit_closes_on_success(exc_type) == exc_type = "None"

\* Lines 71-78: __aexit__ awaits self.close() whatever exc_type is.
aexit_closes(exc_type) == TRUE

\* The permissions and validities a caller of generate_token asks for.
PermissionLists ==
    { NoPermissions, << >>, << "mapbox:*" >>, << "geocode", "directions" >> }
Validities == { -60, 0, 1, 60, expires_in }

\* jwt_auth.generate_token(permissions, expires_in) called by the owner of
\* the issuer, as the tests do: auth.py lines 44-84.
GenerateToken(permissions, validity) ==
    /\ constructed = "returned"
    /\ done' = [ op |-> "generate_token",
                 args |-> [ permissions |-> permissions,
                            expires_in |-> validity ],
                 posts |-> 0, answer |-> NoAnswer,
                 outcome |-> generate_token(permissions, validity, now),
                 frames |-> << >>, yielded |-> << >> ]
    /\ UNCHANGED << cli, now, closed, session_id, current_token,
                    token_generated_at, drawn, issued, invoked, sent_ids,
                    pending, budget, setup, held >>

\* jwt_auth.get_auth_header(permissions, expires_in): auth.py lines 86-101.
GetAuthHeader(permissions, validity) ==
    /\ constructed = "returned"
    /\ done' = [ op |-> "get_auth_header",
                 args |-> [ permissions |-> permissions,
                            expires_in |-> validity ],
                 posts |-> 0, answer |-> NoAnswer,
                 outcome |-> get_auth_header(permissions, validity, now),
                 frames |-> << >>, yielded |-> << >> ]
    /\ UNCHANGED << cli, now, closed, session_id, current_token,
                    token_generated_at, drawn, issued, invoked, sent_ids,
                    pending, budget, setup, held >>

\* The secrets a verifier may hold and the issuer's owner may assign.
Secrets == { "secret", "other" }

\* The token generate_token returned last is verified with key, the
\* issuer's audience and issuer, as the tests and debug_token do:
\* jwt.decode(token, key, algorithms=["HS256"], audience=..., issuer=...).
Verify(key) ==
    /\ constructed = "returned"
    /\ done.op = "generate_token"
    /\ done.outcome.kind = "return"
    /\ done' = [ op |-> "jwt_decode",
                 args |-> [ token |-> done.outcome.value, key |-> key ],
                 posts |-> 0, answer |-> NoAnswer,
                 outcome |-> jwt_decode(done.outcome.value, key, audience,
                                        issuer, now),
                 frames |-> << >>, yielded |-> << >> ]
    /\ UNCHANGED << cli, now, closed, session_id, current_token,
                    token_generated_at, drawn, issued, invoked, sent_ids,
                    pending, budget, setup, held >>

\* The owner of the issuer assigns its jwt_secret attribute, the case
\* generate_token checks for again at lines 75-76.
SetSecret(v) ==
    /\ constructed = "returned"
    /\ v # jwt_secret
    /\ jwt_secret' = v
    /\ UNCHANGED << cli, now, closed, session_id, current_token,
                    token_generated_at, drawn, issued, invoked, sent_ids,
                    pending, done, budget, config, constructed, server_url,
                    acquired, held >>

\* `async with client:` is entered: __aenter__, lines 67-69.
AEnter ==
    /\ constructed = "returned"
    /\ scope = "outside"
    /\ scope' = "inside"
    /\ UNCHANGED << cli, now, closed, session_id, current_token,
                    token_generated_at, drawn, issued, invoked, sent_ids,
                    pending, done, budget, setup, suspended, leaked >>

\* The block of `async with client:` is left, normally (exc_type None) or
\* by an exception raised inside it: __aexit__, lines 71-78.
AExit(exc_type) ==
    /\ scope = "inside"
    /\ scope' = IF exc_type = "None" THEN "left" ELSE "raised"
    /\ closed' = (closed \/ aexit_closes(exc_type))
    /\ UNCHANGED << cli, now, session_id, current_token,
                    token_generated_at, drawn, issued, invoked, sent_ids,
                    pending, done, budget, setup, suspended, leaked >>

\* MCPClient.close, lines 80-82.
Close ==
    /\ constructed = "returned"
    /\ ~closed
    /\ closed' = TRUE
    /\ UNCHANGED << cli, now, session_id, current_token, token_generated_at,
                    drawn, issued, invoked, sent_ids, pending, done, budget,
                    setup, held >>

\* The variables of the client, which the command line leaves alone
\* here: its calls on the client are the outcomes of agent.run.
client == << now, closed, session_id, current_token, token_generated_at,
            drawn, issued, invoked, sent_ids, pending, done, budget, setup,
            held >>

\* The query argument of the command line: absent, empty, blank, text.
QueryArgs == { NoQuery, "", "   ", "xyz123 nonexistent gibberish" }

\* main(query), lines 239-248, up to the first await: single-query mode
\* when query is truthy, else the interactive loop at its first prompt.
Main(query) ==
    /\ cli.pc = "start"
    /\ cli' = IF query # NoQuery /\ query # ""
              THEN [ cli EXCEPT !.pc = "processing", !.mode = "single",
                                !.query = query ]
              ELSE [ cli EXCEPT !.pc = "prompt", !.mode = "interactive",
                                !.left = MaxInputs ]
    /\ UNCHANGED client

\* The user enters a line at the prompt, or the input ends: lines
\* 196-212 and 220-224.  /quit and /exit leave the loop, and main exits.
Prompt(line) ==
    /\ cli.pc = "prompt"
    /\ cli.left > 0
    /\ LET read == [ cli EXCEPT !.left = @ - 1, !.line = line,
                                !.printed = "none", !.result = NoResult,
                                !.raised = "none" ]
       IN  cli' =
             IF line = Eof
             THEN [ read EXCEPT !.printed = loop_except("EOFError").printed ]
             ELSE CASE loop_command(line) = "break" ->
                         Exited([ read EXCEPT !.printed = "Goodbye" ], "none")
                    [] loop_command(line) = "help" ->
                         [ read EXCEPT !.printed = "help" ]
                    [] loop_command(line) = "clear" ->
                         [ read EXCEPT !.printed = "welcome" ]
                    [] loop_command(line) = "blank" -> read
                    [] OTHER ->
                         [ read EXCEPT !.pc = "processing", !.query = line ]
    /\ UNCHANGED client

\* process_query(query) ends with the given outcome: lines 107-134, then
\* lines 215-224 in the loop and lines 241-254 in single-query mode.
Process(outcome) ==
    /\ cli.pc = "processing"
    /\ LET r == process_query(outcome)
           ran == [ cli EXCEPT !.agent_runs = @ + r.agent_runs,
                               !.result = r.returned,
                               !.raised = r.raised,
                               !.printed = IF r.returned # NoResult
                                           THEN "result" ELSE r.printed ]
       IN  cli' =
             IF cli.mode = "single"
             THEN Exited(ran, IF r.raised = "none" THEN "none"
                                                   ELSE "KeyboardInterrupt")
             ELSE IF r.raised = "none"
             THEN [ ran EXCEPT !.pc = "prompt" ]
             ELSE IF loop_except(r.raised).raised = "none"
             THEN [ ran EXCEPT !.pc = "prompt",
                               !.printed = loop_except(r.raised).printed ]
             ELSE Exited([ ran EXCEPT !.printed = "Goodbye" ],
                         "none")
    /\ UNCHANGED client

\* ---------------------------------------------------- specifications

Calls == 1 .. (MaxCalls + CredCalls + SoloCalls)

\* One answer of each kind request() tells apart: no answer in time, no
\* connection, a non-2xx status, a success payload, an error descriptor.
CoreResponses ==
    { [ type |-> "timeout" ],
      [ type |-> "connect_error" ],
      [ type |-> "http", status |-> 401, text |-> "<html>" ],
      [ type |-> "http", status |-> 500, text |-> "<html>" ],
      [ type |-> "http", status |-> 200,
        text |-> "{\"result\":{\"features\":[]}}" ],
      [ type |-> "http", status |-> 200,
        text |-> "{\"error\":{\"code\":-32601,\"message\":\"Method not found\"}}" ] }

\* The protocol scenario: every operation, concurrent calls, the clock
\* jumping past the refresh threshold, one answer of each kind.
Init ==
    Construct([ calls |-> MaxCalls, ticks |-> MaxTicks, frames |-> MaxFrames,
                pending |-> MaxPending ])

Next ==
    \/ Tick(token_ttl * TicksPerSecond + 1)
    \/ \E op \in Ops : Request(op, NoId)
    \/ \E given \in CallerIds : Request("request", given)
    \/ \E c \in Calls, resp \in CoreResponses : Respond(c, resp)
    \/ StreamOpen
    \/ \E c \in Calls, data \in { "{bad", "{\"seq\":1}" } : StreamEvent(c, data)
    \/ \E c \in Calls : StreamClose(c)
    \/ \E c \in Calls : StreamFail(c, "ReadTimeout")
    \/ Close

Spec == Init /\ [][Next]_vars

\* The credential scenario: calls one after the other while the clock
\* advances by every step of Deltas.
CredInit ==
    Construct([ calls |-> CredCalls, ticks |-> CredTicks, frames |-> 0,
                pending |-> 1 ])

CredNext ==
    \/ \E d \in Deltas : Tick(d)
    \/ Request("request", NoId)
    \/ \E c \in Calls : Respond(c, [ type |-> "http", status |-> 200,
                                     text |-> "{}" ])
    \/ StreamOpen
    \/ \E c \in Calls : StreamClose(c)
    \/ Close

CredSpec == CredInit /\ [][CredNext]_vars

\* The single-call scenario: one call at a time, every answer of the
\* transport and every frame of a stream.
SoloInit ==
    Construct([ calls |-> SoloCalls, ticks |-> 0, frames |-> SoloFrames,
                pending |-> 1 ])

SoloNext ==
    \/ \E op \in Ops : Request(op, NoId)
    \/ \E given \in CallerIds : Request("request", given)
    \/ \E c \in Calls, resp \in Responses : Respond(c, resp)
    \/ StreamOpen
    \/ \E c \in Calls, data \in FrameData : StreamEvent(c, data)
    \/ \E c \in Calls : StreamClose(c)
    \/ \E c \in Calls, exc \in StreamFailures : StreamFail(c, exc)
    \/ Close

SoloSpec == SoloInit /\ [][SoloNext]_vars

\* The lifecycle scenario: calls one after the other, inside or outside
\* an `async with` block, cancelled, answered or left early.
LifeInit ==
    Construct([ calls |-> MaxCalls, ticks |-> 0, frames |-> MaxFrames,
                pending |-> 1 ])

LifeNext ==
    \/ \E op \in Ops : Request(op, NoId)
    \/ \E given \in CallerIds : Request("request", given)
    \/ \E c \in Calls, resp \in CoreResponses : Respond(c, resp)
    \/ StreamOpen
    \/ \E c \in Calls : StreamEvent(c, "{bad")
    \/ \E c \in Calls : StreamLeave(c, "{\"seq\":1}")
    \/ \E c \in Calls : StreamFinalize(c)
    \/ \E c \in Calls : StreamClose(c)
    \/ \E c \in Calls : StreamFail(c, "ReadTimeout")
    \/ \E c \in Calls : Cancel(c)
    \/ AEnter
    \/ \E exc_type \in { "None", "Exception" } : AExit(exc_type)
    \/ Close

LifeSpec == LifeInit /\ [][LifeNext]_vars

\* The race scenario: several calls in flight at once around a crossing
\* of the refresh threshold.
RaceInit ==
    Construct([ calls |-> CredCalls, ticks |-> MaxTicks, frames |-> 0,
                pending |-> MaxPending ])

RaceNext ==
    \/ \E d \in { token_ttl * TicksPerSecond,
                   token_ttl * TicksPerSecond + 1 } : Tick(d)
    \/ Request("request", NoId)
    \/ StreamOpen
    \/ \E c \in Calls : Respond(c, [ type |-> "http", status |-> 200,
                                     text |-> "{}" ])
    \/ \E c \in Calls : StreamClose(c)

RaceSpec == RaceInit /\ [][RaceNext]_vars

\* The issuer scenario: generate_token for every argument, at several
\* readings of the clock.
IssuerInit ==
    Construct([ calls |-> 0, ticks |-> CredTicks, frames |-> 0,
                pending |-> 0 ])

IssuerNext ==
    \/ \E d \in Deltas : Tick(d)
    \/ \E permissions \in PermissionLists, validity \in Validities :
           GenerateToken(permissions, validity)
    \/ \E permissions \in PermissionLists, validity \in Validities :
           GetAuthHeader(permissions, validity)
    \/ \E key \in Secrets : Verify(key)

IssuerSpec == IssuerInit /\ [][IssuerNext]_vars

\* What JWT_SECRET may hold in the environment.
EnvSecrets == { NoSecret, "", "secret" }

\* The secret scenario: a client is constructed with and without
\* JWT_SECRET in the environment, then calls are made on it and on its
\* issuer while the issuer's secret is assigned and cleared.
SecretInit ==
    \E secret \in EnvSecrets :
        Unconstructed([ calls |-> CredCalls, ticks |-> MaxTicks,
                        frames |-> 0, pending |-> MaxPending ],
                      [ DefaultConfig EXCEPT !.JWT_SECRET = secret ])

SecretNext ==
    \/ New
    \/ \E d \in { 1, token_ttl * TicksPerSecond + 1 } : Tick(d)
    \/ Request("request", NoId)
    \/ StreamOpen
    \/ \E c \in Calls : Respond(c, [ type |-> "http", status |-> 200,
                                     text |-> "{}" ])
    \/ GenerateToken(NoPermissions, expires_in)
    \/ \E v \in Secrets \cup { NoSecret, "" } : SetSecret(v)

SecretSpec == SecretInit /\ [][SecretNext]_vars

\* The command-line scenario: main() in either mode, every line at the
\* prompt, every outcome of the processing of a query.
CliInit ==
    Construct([ calls |-> 0, ticks |-> 0, frames |-> 0, pending |-> 0 ])

CliNext ==
    \/ \E query \in QueryArgs : Main(query)
    \/ \E line \in Inputs \cup { Eof } : Prompt(line)
    \/ \E outcome \in Outcomes : Process(outcome)

CliSpec == CliInit /\ [][CliNext]_vars

\* What MCP_SERVER_URL may hold in the environment.
EnvUrls == { NoUrl, << >>, << "h", "/", "m", "c", "p", "/" >> }

\* The construction scenario: MCPClient(server_url) for every address and
\* environment, then close().
UrlInit ==
    \E url \in Urls, env \in EnvUrls, secret \in EnvSecrets :
        Unconstructed([ calls |-> 0, ticks |-> 0, frames |-> 0,
                        pending |-> 0 ],
                      [ server_url |-> url, MCP_SERVER_URL |-> env,
                        JWT_SECRET |-> secret ])

UrlNext ==
    \/ New
    \/ Close

UrlSpec == UrlInit /\ [][UrlNext]_vars

\* ------------------------------------------------------------- claims

\* A step in which a call is made on the client.
CallMade == invoked' = invoked + 1
\* The calls POSTed in a step.
Posted == DOMAIN pending' \ DOMAIN pending
\* The credential attached to call c awaiting the server.
Attached(c) == pending'[c].headers.Authorization.token

\* The refresh threshold of the spec, in ticks.
Threshold == 3300 * TicksPerSecond

\* C1: a call made while now - issuance timestamp does not exceed the
\* threshold attaches the cached Credential and leaves the issuance
\* timestamp alone, without any issuance; a call made after the threshold
\* has elapsed, or with no Credential cached, causes exactly one issuance
\* and sets the issuance timestamp to the time of the call.
C1_RefreshPolicy ==
    [][ CallMade =>
          IF current_token # None /\ now - token_generated_at <= Threshold
          THEN /\ issued' = issued
               /\ cred' = cred
               /\ \A c \in Posted : Attached(c) = current_token
          ELSE /\ issued' = issued + 1
               /\ token_generated_at' = now
               /\ current_token' # None
               /\ \A c \in Posted : Attached(c) = current_token' ]_vars

\* C1 witness: three calls, the second reusing the credential of the first
\* and the third, made after the threshold, replacing it.
C1_Witness ==
    /\ invoked = 3
    /\ issued = 2
    /\ token_generated_at = now
    /\ DOMAIN pending = { 3 }

\* C2: every call is sent with a Credential that is unexpired at that
\* moment: its age since issuance does not exceed the threshold, and the
\* time of sending is before its expiry.
C2_SentUnexpired ==
    [][ \A c \in Posted :
          /\ Attached(c) # None
          /\ Attached(c) = current_token'
          /\ now' - token_generated_at' <= Threshold
          /\ now' < Attached(c).exp * TicksPerSecond
          /\ Threshold < expires_in * TicksPerSecond ]_vars

\* C2 witness: a call sent with a credential as old as the threshold allows.
C2_Witness ==
    /\ pending # << >>
    /\ current_token # None
    /\ now - token_generated_at = Threshold

\* The calls that completed in a step.
Answered == DOMAIN pending \ DOMAIN pending'

\* The transport answered the call in done with a non-2xx status.
AnsweredNon2xx(d) ==
    /\ d.answer.type = "http"
    /\ ~(200 <= d.answer.status /\ d.answer.status <= 299)

\* C3 as stated: after a call answered with a non-2xx status, the cached
\* Credential and the issuance timestamp are what they were before the
\* call started, also when it is the first call of the client.
C3_Original ==
    (invoked = 1 /\ AnsweredNon2xx(done)) => cred = << None, 0 >>

\* C3 amended: a call answered with a non-2xx status fails with
\* HTTPStatusError carrying that status, and handling the answer leaves
\* the cached Credential and the issuance timestamp as they were when the
\* answer arrived.
C3_FailureKeepsCredential ==
    [][ (Answered # {} /\ AnsweredNon2xx(done')) =>
          /\ done'.outcome = [ kind |-> "raise", exc |-> "HTTPStatusError",
                               status |-> done'.answer.status ]
          /\ cred' = cred ]_vars

\* C3 witness: the first call of a client failed on a 401; the credential
\* its freshness check minted is cached.
C3_Witness ==
    /\ invoked = 1
    /\ AnsweredNon2xx(done)
    /\ done.answer.status = 401
    /\ current_token # None
    /\ issued = 1

\* C4 as stated: a call made after close does not change the Credential
\* state.
C4_Original ==
    [][ (closed /\ CallMade) => cred' = cred ]_vars

\* C4 amended: once closed the client stays closed; a call made after
\* close fails, sends nothing and leaves the calls awaiting the server
\* alone; its freshness check runs first, so the Credential state is
\* unchanged when a Credential no older than the threshold is cached.
C4_ClosedRejects ==
    [][ closed =>
          /\ closed'
          /\ CallMade =>
               /\ done'.outcome = Raise("RuntimeError")
               /\ done'.posts = 0
               /\ pending' = pending
               /\ sent_ids' = sent_ids
               /\ (current_token # None /\ now - token_generated_at <= Threshold)
                    => cred' = cred ]_vars

\* C4 witness: a call was refused by the closed client while a Credential
\* was cached.
C4_Witness ==
    /\ closed
    /\ done.outcome = Raise("RuntimeError")
    /\ current_token # None
    /\ invoked = 2

\* The body of the answer in done holds an error descriptor: it decodes
\* to an object whose "error" is an object.
HasErrorDescriptor(d) ==
    /\ d.answer.type = "http"
    /\ 200 <= d.answer.status /\ d.answer.status <= 299
    /\ json_loads(d.answer.text).ok
    /\ "error" \in DOMAIN json_loads(d.answer.text).value
    /\ IsDict(json_loads(d.answer.text).value.error)

\* C5: when the decoded body of the answer holds an error descriptor, the
\* call (request, call_tool or list_tools) fails with the error that
\* carries the descriptor (code, message, data), and returns nothing.
C5_ErrorDescriptorRaises ==
    HasErrorDescriptor(done) =>
        done.outcome =
            [ kind |-> "raise", exc |-> "ValueError",
              error |-> json_loads(done.answer.text).value.error ]

\* C5 witness: call_tool answered with the descriptor of an unknown
\* method, code -32601.
C5_Witness ==
    /\ done.op = "call_tool"
    /\ HasErrorDescriptor(done)
    /\ done.outcome.error.code = -32601
    /\ "result" \in DOMAIN json_loads(done.answer.text).value

\* C6: every call causes at most one POST, whatever its outcome.
C6_AtMostOnce ==
    /\ done.posts <= 1
    /\ \A c \in DOMAIN pending : pending[c].posts <= 1

\* C6 witness: a call_tool failed for want of a connection while another
\* call awaits the server, each having POSTed once.
C6_Witness ==
    /\ done.op = "call_tool"
    /\ done.outcome = Raise("ConnectError")
    /\ done.posts = 1
    /\ \E c \in DOMAIN pending : pending[c].posts = 1

\* The call was given no id: its envelope carries one uuid4() returned.
Generated(c) ==
    /\ "id" \in DOMAIN pending[c].envelope
    /\ pending[c].envelope.id \in UUIDs

\* C7: the identifiers of concurrent calls that pass no id are pairwise
\* distinct.
C7_GeneratedIdsDistinct ==
    \A c1, c2 \in DOMAIN pending :
        (c1 # c2 /\ Generated(c1) /\ Generated(c2))
            => pending[c1].envelope.id # pending[c2].envelope.id

\* C7 witness: two calls that passed no id await the server.
C7_Witness ==
    \E c1, c2 \in DOMAIN pending : c1 # c2 /\ Generated(c1) /\ Generated(c2)

\* C8 as stated: every envelope sent carries an identifier that no
\* envelope of the session carried before, whoever chose it.
C8_Original ==
    [][ \A c \in Posted :
          /\ "id" \in DOMAIN pending'[c].envelope
          /\ pending'[c].envelope.id \notin sent_ids ]_vars

\* C9: the session identifier never changes, and every call awaiting the
\* server was sent with it.
C9_SessionConstant ==
    [][ /\ session_id' = session_id
        /\ \A c \in DOMAIN pending' :
             pending'[c].headers.mcp_session_id = session_id ]_vars

\* C9 witness: a request and a stream are both awaiting the server, after
\* a credential refresh.
C9_Witness ==
    /\ \E c1, c2 \in DOMAIN pending :
         pending[c1].op = "stream" /\ pending[c2].op = "request"
    /\ issued = 2

\* A frame whose data is non-empty and well-formed JSON.
WellFormed(data) == data # "" /\ json_loads(data).ok

\* The parsed payloads of the well-formed frames, in frame order.
ParsedPayloads(frames) ==
    LET kept == SelectSeq(frames, WellFormed)
    IN  [ i \in 1 .. Len(kept) |-> json_loads(kept[i]).value ]

\* C10: a stream has yielded exactly the parsed payloads of the frames
\* with non-empty well-formed data, in frame order; malformed or empty
\* data does not end it (no decoding error leaves the stream), and it
\* completes normally when the server closes the connection.
C10_StreamYields ==
    /\ \A c \in DOMAIN pending :
         pending[c].yielded = ParsedPayloads(pending[c].frames)
    /\ done.op = "stream" =>
         /\ done.yielded = ParsedPayloads(done.frames)
         /\ done.outcome.kind = "raise" => done.outcome.exc # "JSONDecodeError"

\* C10 witness: a stream of three frames, one of them malformed, has
\* completed normally having yielded two events.
C10_Witness ==
    /\ done.op = "stream"
    /\ done.outcome.kind = "return"
    /\ Len(done.frames) = 3
    /\ \E i \in 1 .. 3 : done.frames[i] = "{bad"
    /\ done.yielded = << [ seq |-> 1 ], [ seq |-> 2 ] >>

\* The addresses of the examples: "http://host", "http://host/mcp" and
\* "http://host/mcp/".
Host == << "h" >>
HostMcp == << "h", "/", "m", "c", "p" >>
HostMcpSlash == << "h", "/", "m", "c", "p", "/" >>

\* The address the constructor is given: the argument, else the environment.
Configured ==
    IF Truthy(config.server_url) THEN config.server_url
                                 ELSE config.MCP_SERVER_URL

\* The address ends in one "/mcp" segment, and not in two.
EndsInOneMcp(url) ==
    /\ endswith(url, mcp)
    /\ ~endswith(SubSeq(url, 1, Len(url) - Len(mcp)), mcp)

\* C11 as stated: construction maps "http://host" to "http://host/mcp" and
\* "http://host/mcp/" to "http://host/mcp", and the normalized address
\* always ends in exactly one "/mcp" segment.
C11_Original ==
    constructed = "returned" =>
        /\ Configured = Host => server_url = HostMcp
        /\ Configured = HostMcpSlash => server_url = HostMcp
        /\ EndsInOneMcp(server_url)

\* No address is configured: neither argument nor environment holds one.
NoAddress == ~Truthy(config.server_url) /\ ~Truthy(config.MCP_SERVER_URL)

\* C19: constructing a client when no server address is configured fails
\* with ValueError (the ConfigurationError of the code); the client never
\* becomes Active (it has no session and can never be constructed later)
\* and the failed construction creates no HTTP client.
C19_NoAddressFails ==
    (NoAddress /\ constructed # "no") =>
        /\ constructed = "ValueError: MCP_SERVER_URL environment variable is required"
        /\ acquired = 0
        /\ session_id = NoId
        /\ ~closed
        /\ ~ENABLED New

\* C19 witness: MCPClient(server_url="") without MCP_SERVER_URL has failed,
\* although a signing secret is configured.
C19_Witness ==
    /\ config.server_url = << >>
    /\ config.MCP_SERVER_URL = NoUrl
    /\ config.JWT_SECRET = "secret"
    /\ constructed # "no"
    /\ constructed # "returned"

\* The transport answered the call in d with a 2xx status and a body that
\* decodes to an object without an "error" key: a success payload.
SuccessPayload(d) ==
    /\ d.answer.type = "http"
    /\ 200 <= d.answer.status /\ d.answer.status <= 299
    /\ json_loads(d.answer.text).ok
    /\ "error" \notin DOMAIN json_loads(d.answer.text).value

Payload(d) == json_loads(d.answer.text).value

\* C12: call_tool sends a request with method "tools/call" and params
\* {name, arguments}; when the success payload has a "result" key it
\* returns the value under that key, one level only, and otherwise it
\* returns the payload unchanged.
C12_CallToolUnwraps ==
    [][ /\ \A c \in Posted :
             pending'[c].op = "call_tool" =>
                 /\ pending'[c].envelope.method = "tools/call"
                 /\ DOMAIN pending'[c].envelope.params = { "name", "arguments" }
        /\ (Answered # {} /\ done'.op = "call_tool" /\ SuccessPayload(done')) =>
             IF "result" \in DOMAIN Payload(done')
             THEN done'.outcome = Return(Payload(done').result)
             ELSE done'.outcome = Return(Payload(done')) ]_vars

\* C12 witness: call_tool answered with a result nested in a result has
\* returned the inner result still wrapped.
C12_Witness ==
    /\ done.op = "call_tool"
    /\ done.answer = [ type |-> "http", status |-> 200,
                       text |-> "{\"result\":{\"result\":{\"features\":[]}}}" ]
    /\ done.outcome = Return([ result |-> [ features |-> << >> ] ])

TimedOut == Answered # {} /\ done'.answer.type = "timeout"

\* C14 as stated: a request that exceeds the timeout fails with the
\* timeout error and leaves no partial state: the cached Credential and
\* the issuance timestamp are the pair the freshness check left, the
\* client is as open as it was, and no later envelope carries the
\* identifier of the timed-out one.
C14_Original ==
    [][ /\ TimedOut =>
             /\ done'.outcome = Raise("TimeoutException")
             /\ cred' = cred
             /\ current_token' # None
             /\ current_token'.iat = IntTime(token_generated_at')
             /\ closed' = closed
        /\ \A c \in Posted :
             (done.answer.type = "timeout" /\ "id" \in DOMAIN pending'[c].envelope)
                 => pending'[c].envelope.id \notin sent_ids ]_vars

\* C16: the HTTP client created at construction is closed on every exit
\* path: once close() has run it stays closed, and when the block of
\* `async with client:` has been left, normally or by an exception raised
\* inside it, the client is closed.
C16_ReleasedOnExit ==
    [][ /\ closed => closed'
        /\ (scope = "inside" /\ scope' # "inside") => closed'
        /\ scope' \in { "left", "raised" } => (closed' /\ acquired' = 1) ]_vars

\* C16 witness: a call failed inside the block, the block was left by an
\* exception, and the client is closed.
C16_Witness ==
    /\ scope = "raised"
    /\ done.outcome.kind = "raise"
    /\ done.outcome.exc = "HTTPStatusError"
    /\ closed

\* The calls whose response is held open although they were cancelled or
\* their consumer stopped consuming.
HeldAbandoned == DOMAIN suspended \cup leaked

\* C17 as stated: no reachable state has a cancelled or abandoned call
\* whose response is still held open.
C17_Original == HeldAbandoned = {}

\* C17 amended: a cancelled call (a pending request, or a stream awaiting
\* its next frame) holds nothing once the cancellation has left it; a
\* stream whose consumer stopped at a yielded event is held only while
\* its generator is suspended at that yield, and closing the generator
\* releases it; no response is ever left open with no code to close it.
C17_CancelReleases ==
    [][ /\ leaked' = {}
        /\ (Answered # {} /\ done'.outcome = Raise("CancelledError")) =>
             Answered \cap DOMAIN suspended' = {}
        /\ \A c \in DOMAIN suspended' \ DOMAIN suspended :
             /\ c \in Answered
             /\ pending[c].op = "stream"
             /\ Len(suspended'[c].yielded) = Len(pending[c].yielded) + 1
        /\ \A c \in DOMAIN suspended \ DOMAIN suspended' :
             c \notin DOMAIN pending' ]_vars

\* C17 witness: a stream left at its first event is suspended, and a
\* request made after it has been cancelled.
C17_Witness ==
    /\ 1 \in DOMAIN suspended
    /\ done.op = "request"
    /\ done.outcome = Raise("CancelledError")
    /\ pending = << >>
    /\ leaked = {}

\* The outcome is one of the per-call failures: a non-2xx status or no
\* connection, no answer in time, an error descriptor.
PerCallFailure(o) ==
    /\ o.kind = "raise"
    /\ o.exc \in { "HTTPStatusError", "ConnectError", "TimeoutException",
                    "ValueError" }

\* C18: a call that fails with a per-call failure leaves the client as
\* open as it was, with the same server address and session identifier;
\* a call made after such a failure on a client that was not closed is
\* POSTed once to that address with that session identifier.
C18_FailureKeepsLifecycle ==
    [][ /\ (Answered # {} /\ PerCallFailure(done'.outcome)) =>
             /\ closed' = closed
             /\ constructed' = "returned"
             /\ server_url' = server_url
             /\ session_id' = session_id
        /\ (CallMade /\ PerCallFailure(done.outcome) /\ ~closed) =>
             /\ Posted # {}
             /\ \A c \in Posted :
                  /\ pending'[c].url = server_url
                  /\ pending'[c].headers.mcp_session_id = session_id
                  /\ pending'[c].posts = 1 ]_vars

\* C18 witness: the first call timed out, and the second call, made on
\* the open client, awaits the server.
C18_Witness ==
    /\ done.outcome = Raise("TimeoutException")
    /\ invoked = 2
    /\ DOMAIN pending = { 2 }
    /\ pending[2].url = HostMcp
    /\ ~closed

\* The calls awaiting the server that were sent with the cached Credential.
SentWithCached ==
    { c \in DOMAIN pending :
        pending[c].headers.Authorization.token = current_token }

\* C15: with several calls in flight, every call attaches a complete
\* Credential, the cached one or the one just issued, paired with its own
\* issuance timestamp and unexpired; a call causes at most one issuance,
\* and a call racing with one that was sent with the cached Credential
\* while that Credential is within the threshold causes none, so a
\* crossing raced by several calls causes one issuance.
C15_ConcurrentCredential ==
    [][ CallMade =>
          /\ current_token' # None
          /\ current_token'.iat = IntTime(token_generated_at')
          /\ current_token'.exp = current_token'.iat + expires_in
          /\ now' < current_token'.exp * TicksPerSecond
          /\ \/ cred' = cred /\ issued' = issued
             \/ token_generated_at' = now /\ issued' = issued + 1
          /\ \A c \in Posted : Attached(c) = current_token'
          /\ (SentWithCached # {} /\ now - token_generated_at <= Threshold)
                => issued' = issued ]_vars

\* C15 witness: after the first issuance the threshold was crossed, and
\* two calls made at once after the crossing both carry the one
\* Credential issued for it.
C15_Witness ==
    /\ issued = 2
    /\ invoked = 3
    /\ DOMAIN pending = { 2, 3 }
    /\ SentWithCached = { 2, 3 }
    /\ token_generated_at = now
    /\ pending[2].op # pending[3].op

\* The step is a call of generate_token.
Issues == done' # done /\ done'.op = "generate_token"

\* C20: for every list of permissions and every validity asked for,
\* generate_token returns a token whose iat and nbf are the current time
\* in whole seconds, whose exp - iat is the validity, and whose
\* permissions are the list asked for (the default list when none is).
C20_IssuedClaims ==
    [][ Issues =>
          LET token == done'.outcome.value
              args == done'.args
          IN  /\ token.iat = IntTime(now)
              /\ token.nbf = IntTime(now)
              /\ token.exp - token.iat = args.expires_in
              /\ token.permissions =
                    IF args.permissions = NoPermissions
                    THEN << "mapbox:*" >>
                    ELSE args.permissions ]_vars

\* C20 witness: a token for two permissions and one minute was issued
\* after the clock had advanced.
C20_Witness ==
    /\ done.op = "generate_token"
    /\ done.args = [ permissions |-> << "geocode", "directions" >>,
                     expires_in |-> 60 ]
    /\ done.outcome.value.iat > StartTime
    /\ done.outcome.value.exp = done.outcome.value.iat + 60

\* The number of "/" characters the address ends in.
RECURSIVE TrailingSlashes(_)
TrailingSlashes(url) ==
    IF Len(url) > 0 /\ url[Len(url)] = "/"
    THEN 1 + TrailingSlashes(SubSeq(url, 1, Len(url) - 1))
    ELSE 0

\* The address without its last n characters.
DropLast(url, n) == SubSeq(url, 1, Len(url) - n)

\* C25 as stated: an address that does not end in "/mcp" loses exactly one
\* trailing "/" (if it has one) before "/mcp" is appended, further
\* trailing slashes being kept; an address ending in "/mcp" is unchanged.
C25_Original ==
    constructed = "returned" =>
        server_url =
            IF endswith(Configured, mcp) THEN Configured
            ELSE IF TrailingSlashes(Configured) > 0
                 THEN DropLast(Configured, 1) \o mcp
                 ELSE Configured \o mcp

\* C25 amended: an address that does not end in "/mcp" loses every
\* trailing "/" before "/mcp" is appended; an address ending in "/mcp"
\* is unchanged.
C25_TrimsEverySlash ==
    constructed = "returned" =>
        server_url =
            IF endswith(Configured, mcp) THEN Configured
            ELSE DropLast(Configured, TrailingSlashes(Configured)) \o mcp

\* C25 witness: a client was constructed for "http://host//" and its
\* address is "http://host/mcp".
C25_Witness ==
    /\ constructed = "returned"
    /\ Configured = << "h", "/", "/" >>
    /\ server_url = HostMcp

\* C24 as stated: the envelope of a stream call has the shape of a unary
\* call's (version tag, method, an identifier no earlier envelope
\* carried, params where given), and its headers are those of a unary
\* call with "Accept: text/event-stream" added.
C24_Original ==
    [][ \A c \in Posted :
          pending'[c].op = "stream" =>
            LET envelope == pending'[c].envelope
                headers == pending'[c].headers
            IN  /\ { "jsonrpc", "method", "id" } \subseteq DOMAIN envelope
                /\ DOMAIN envelope \subseteq
                      { "jsonrpc", "method", "id", "params" }
                /\ envelope.jsonrpc = "2.0"
                /\ envelope.method = method_of("stream")
                /\ envelope.id \notin sent_ids
                /\ DOMAIN headers =
                      DOMAIN request_headers(Attached(c), session_id)
                        \cup { "Accept" }
                /\ headers.Accept = "text/event-stream"
                /\ \A h \in DOMAIN headers \ { "Accept" } :
                      headers[h] =
                        request_headers(Attached(c), session_id)[h] ]_vars

\* The answer in d is a 2xx response whose body decodes.
Decoded2xx(d) ==
    /\ d.answer.type = "http"
    /\ 200 <= d.answer.status /\ d.answer.status <= 299
    /\ json_loads(d.answer.text).ok

\* C26 as stated: a request answered 2xx returns the decoded body as it is
\* when the body holds no "error", whatever else it holds, and fails with
\* the JSON-RPC error exactly when the body holds an "error", with or
\* without a "result".
C26_Original ==
    (done.op = "request" /\ Decoded2xx(done)) =>
        LET body == json_loads(done.answer.text).value
        IN  IF "error" \in DOMAIN body
            THEN done.outcome.kind = "raise"
                 /\ done.outcome.exc = "ValueError"
            ELSE done.outcome = Return(body)

\* C28: the cached credential is absent exactly when the issuance
\* timestamp is 0; the two change only together, in a call on the client
\* whose freshness check mints a token, the credential becoming the token
\* minted then (signed with the issuer's secret, issued at the present
\* second) and the timestamp the present time.
C28_CredentialPaired ==
    [][ /\ (current_token = None) <=> (token_generated_at = 0)
        /\ (current_token' = None) <=> (token_generated_at' = 0)
        /\ (current_token' # current_token
               \/ token_generated_at' # token_generated_at) =>
              /\ CallMade
              /\ issued' = issued + 1
              /\ current_token' # current_token
              /\ token_generated_at' # token_generated_at
              /\ token_generated_at' = now
              /\ current_token' # None
              /\ current_token'.iat = IntTime(now)
              /\ current_token'.key = jwt_secret ]_vars

\* C28 witness: the credential was minted, kept by a later call, and
\* replaced after the threshold; the timestamp is that of the
\* replacement.
C28_Witness ==
    /\ issued = 2
    /\ invoked = 3
    /\ current_token # None
    /\ token_generated_at = now
    /\ now > StartTime * TicksPerSecond
    /\ current_token.iat = IntTime(token_generated_at)

\* The freshness check of a call made now has to mint a token.
MustMint ==
    current_token = None \/ now - token_generated_at > Threshold

\* C27: when a request or a stream has to mint a token and the issuer
\* fails (it has no secret), the call raises the issuer's error, nothing
\* is POSTed for it, and the cached credential and the issuance
\* timestamp stay what they were.
C27_IssuerFailurePropagates ==
    [][ (CallMade /\ MustMint /\ ~TruthySecret(jwt_secret)) =>
          /\ done'.op \in Ops \cup { "stream" }
          /\ done'.outcome = Raise("ValueError: JWT secret is required")
          /\ done'.posts = 0
          /\ Posted = {}
          /\ pending' = pending
          /\ sent_ids' = sent_ids
          /\ current_token' = current_token
          /\ token_generated_at' = token_generated_at
          /\ issued' = issued ]_vars

\* C27 witness: a request minted a credential and awaits the server; the
\* secret was cleared and, past the threshold, a stream failed in the
\* issuer, the credential of the first call still cached.
C27_Witness ==
    /\ done.op = "stream"
    /\ done.outcome = Raise("ValueError: JWT secret is required")
    /\ ~TruthySecret(jwt_secret)
    /\ issued = 1
    /\ invoked = 2
    /\ current_token # None
    /\ now - token_generated_at > Threshold
    /\ \E c \in DOMAIN pending : pending[c].op = "request"

\* The tokens there are: the one cached, those attached to the calls
\* awaiting the server, and the one generate_token returned last.
Tokens ==
    (IF current_token = None THEN {} ELSE { current_token })
    \cup { pending[c].headers.Authorization.token : c \in DOMAIN pending }
    \cup (IF done.op = "generate_token" /\ done.outcome.kind = "return"
          THEN { done.outcome.value } ELSE {})

\* C22: an issuer cannot be constructed without a secret (the
\* constructor raises ValueError), generate_token raises ValueError at
\* once when the issuer's secret is empty, no token results from a call
\* made while it is, and every token there is was signed with a
\* non-empty secret.
C22_NoSecretNoCredential ==
    [][ /\ (constructed = "no" /\ constructed' # "no"
                /\ ~TruthySecret(config.JWT_SECRET)) =>
              /\ constructed' =
                    "ValueError: JWT_SECRET environment variable is required"
              /\ Tokens' = {}
        /\ (Issues /\ ~TruthySecret(jwt_secret)) =>
              done'.outcome = Raise("ValueError: JWT secret is required")
        /\ ~TruthySecret(jwt_secret) => Tokens' \subseteq Tokens
        /\ \A token \in Tokens' : TruthySecret(token.key) ]_vars

\* C22 witness: the issuer signed a token, its secret was cleared, and
\* generate_token then raised.
C22_Witness ==
    /\ done.op = "generate_token"
    /\ done.outcome = Raise("ValueError: JWT secret is required")
    /\ jwt_secret = ""
    /\ current_token # None
    /\ current_token.key = "secret"

\* The step verifies the token generate_token returned.
Verifies == done.op = "generate_token" /\ done'.op = "jwt_decode"

\* The claims generate_token was asked to issue by the call in done: the
\* issuer's defaults, the time of the call, the validity and the
\* permissions asked for.
IssuedClaims ==
    [ iss |-> "mapbox-mcp-server",
      sub |-> "pydantic-ai-client",
      aud |-> "mapbox-mcp-server",
      iat |-> done.outcome.value.iat,
      nbf |-> done.outcome.value.iat,
      exp |-> done.outcome.value.iat + done.args.expires_in,
      permissions |-> IF done.args.permissions = NoPermissions
                      THEN << "mapbox:*" >> ELSE done.args.permissions ]

\* C21 as stated: verifying an issued token returns the issued claims if
\* and only if the verifier's secret is the issuer's, and fails with any
\* other secret.
C21_Original ==
    [][ Verifies =>
          /\ (done'.outcome = Return(IssuedClaims))
                <=> (done'.args.key = jwt_secret)
          /\ done'.args.key # jwt_secret => done'.outcome.kind = "raise" ]_vars

\* C21 amended: verifying an issued token returns the issued claims if
\* and only if the verifier's secret is the issuer's and the token has
\* not expired; with any other secret it fails for the signature, and
\* with the issuer's secret at or after exp it fails as expired.
C21_VerifiesUnexpired ==
    [][ Verifies =>
          /\ (done'.outcome = Return(IssuedClaims))
                <=> (done'.args.key = jwt_secret
                       /\ IntTime(now) < done.outcome.value.exp)
          /\ done'.args.key # jwt_secret =>
                done'.outcome = Raise("InvalidSignatureError")
          /\ (done'.args.key = jwt_secret
                /\ IntTime(now) >= done.outcome.value.exp) =>
                done'.outcome = Raise("ExpiredSignatureError") ]_vars

\* C21 witness: a token for two permissions and one minute was verified
\* with the issuer's secret and its claims came back.
C21_Witness ==
    /\ done.op = "jwt_decode"
    /\ done.args.key = jwt_secret
    /\ done.outcome.kind = "return"
    /\ done.outcome.value.permissions = << "geocode", "directions" >>
    /\ done.outcome.value.exp = done.outcome.value.iat + 60
    /\ done.outcome.value.iat > StartTime

\* The arguments of a call that passes none.
DefaultArgs == [ permissions |-> NoPermissions, expires_in |-> 3600 ]

\* A token carrying the default claims.
DefaultClaims(token) ==
    /\ token.iss = "mapbox-mcp-server"
    /\ token.sub = "pydantic-ai-client"
    /\ token.aud = "mapbox-mcp-server"
    /\ token.permissions = << "mapbox:*" >>

\* C23: a token issued by a default issuer for default arguments has
\* issuer "mapbox-mcp-server", subject "pydantic-ai-client", audience
\* "mapbox-mcp-server" and permissions ["mapbox:*"], and get_auth_header
\* returns exactly one header, Authorization, holding "Bearer " and such
\* a token.
C23_DefaultClaimsAndHeader ==
    [][ /\ (Issues /\ done'.args = DefaultArgs) =>
              DefaultClaims(done'.outcome.value)
        /\ (done' # done /\ done'.op = "get_auth_header"
               /\ done'.args = DefaultArgs) =>
              LET header == done'.outcome.value
              IN  /\ done'.outcome.kind = "return"
                  /\ DOMAIN header = { "Authorization" }
                  /\ header.Authorization.scheme = "Bearer"
                  /\ DefaultClaims(header.Authorization.token)
                  /\ header.Authorization.token.iat = IntTime(now)
                  /\ header.Authorization.token.exp = IntTime(now) + 3600
                  /\ header.Authorization.token.key = jwt_secret ]_vars

\* C23 witness: get_auth_header() was called without arguments after the
\* clock had advanced, and returned a Bearer header.
C23_Witness ==
    /\ done.op = "get_auth_header"
    /\ done.args = DefaultArgs
    /\ done.outcome.kind = "return"
    /\ done.outcome.value.Authorization.scheme = "Bearer"
    /\ done.outcome.value.Authorization.token.sub = "pydantic-ai-client"
    /\ done.outcome.value.Authorization.token.iat > StartTime

\* The step handles a line entered at the prompt of the interactive loop.
Entered == cli.pc = "prompt" /\ cli' # cli
\* The step ends the processing of a query entered at the prompt.
Processed ==
    cli.mode = "interactive" /\ cli.pc = "processing" /\ cli' # cli
\* The interactive loop is running: at its prompt or processing a query.
Looping(c) == c.mode = "interactive" /\ c.pc \in { "prompt", "processing" }

\* C29 as stated: the interactive loop ends only when /quit or /exit is
\* entered, in any case of letters; after any other line, after a query
\* that fails and after Ctrl+C during the processing of a query the loop
\* is still running; /help, /clear and a blank line never run the agent.
C29_Original ==
    [][ /\ (Looping(cli) /\ ~Looping(cli')) =>
              (Entered /\ lower(cli'.line) \in { "/quit", "/exit" })
        /\ (Entered /\ lower(cli'.line) \notin { "/quit", "/exit" }) =>
              Looping(cli')
        /\ Processed => Looping(cli')
        /\ (Entered /\ (lower(cli'.line) \in { "/help", "/clear" }
                          \/ strip(cli'.line) = "")) =>
              (cli'.agent_runs = cli.agent_runs /\ cli'.pc = "prompt") ]_vars

\* C30: in single-query mode, entered for every query that is not empty,
\* main exits with status 0 whatever the query and however its
\* processing went; no error of the processing leaves process_query,
\* which prints it and returns None.
C30_SingleQueryExitsZero ==
    cli.mode = "single" =>
        /\ cli.query \notin { NoQuery, "" }
        /\ cli.pc = "exited" => cli.status = 0
        /\ cli.raised \notin { "ValueError", "Exception" }
        /\ (cli.pc = "exited" /\ cli.raised = "none"
              /\ cli.result = NoResult) => cli.printed = "Error"

\* C30 witness: the command line was given a blank query, the agent ran
\* and failed, the error was printed, and main exited with status 0.
C30_Witness ==
    /\ cli.mode = "single"
    /\ cli.query = "   "
    /\ cli.pc = "exited"
    /\ cli.agent_runs = 1
    /\ cli.result = NoResult
    /\ cli.printed = "Error"
    /\ cli.status = 0

====
